---------------------------- MODULE Spec2Model ----------------------------
(***************************************************************************)
(* Model of js/script.js: the APOD gallery page.                           *)
(*                                                                         *)
(* Text that the code only copies (titles, dates, labels) is a TLA+        *)
(* string.  Text that the code searches and cuts (the url of a record and  *)
(* everything derived from it) is a sequence of tokens, so that            *)
(* String.prototype.includes and String.prototype.split are computed and   *)
(* not assumed.  A missing field and an empty one are both falsy in the    *)
(* code (item.x || default, if (item.x)), and the code never tells them    *)
(* apart: both are "" (text) or << >> (url).                               *)
(***************************************************************************)
EXTENDS Naturals, Sequences, FiniteSets

\* ------------------------------------------------------------------ bounds
\* Longest feed array the network returns.
MaxFeedLen == 2
\* Most fetch invocations that may be in flight at once.
MaxPending == 2
\* Most pieces a url of the resolver specification is built from.
MaxUrlPieces == 3

\* ------------------------------------------------------- strings as tokens
Min(S) == CHOOSE x \in S : \A y \in S : x <= y

\* Positions at which sep occurs in s.
Occurrences(s, sep) ==
  { i \in 1..Len(s) : /\ i + Len(sep) - 1 <= Len(s)
                      /\ SubSeq(s, i, i + Len(sep) - 1) = sep }

\* s.includes(sep)
Includes(s, sep) == Occurrences(s, sep) # {}

\* s.split(sep), sep not empty: the segments between the occurrences of sep,
\* left to right, without overlap.
RECURSIVE Split(_, _)
Split(s, sep) ==
  IF ~Includes(s, sep)
  THEN << s >>
  ELSE LET i == Min(Occurrences(s, sep))
       IN  << SubSeq(s, 1, i - 1) >>
             \o Split(SubSeq(s, i + Len(sep), Len(s)), sep)

\* The literals of openApodModal.
EmbedMarker == << "/", "embed", "/" >>
WatchMarker == << "watch", "?", "v=" >>
ShortMarker == << "youtu.be", "/" >>
QueryDelim == << "?" >>
ParamDelim == << "&" >>
WatchPrefix == << "https://www.youtube.com", "/", "watch", "?", "v=" >>
ThumbPrefix == << "https://img.youtube.com", "/", "vi", "/" >>
ThumbSuffix == << "/", "hqdefault.jpg" >>
Hash == << "#" >>

\* ----------------------------------------------------------------- records
Item(title, date, explanation, mediaType, url, hdurl, thumb) ==
  [ isNull |-> FALSE, title |-> title, date |-> date,
    explanation |-> explanation, media_type |-> mediaType,
    url |-> url, hdurl |-> hdurl, thumbnail_url |-> thumb ]

\* A null element of the feed array: reading a property of it raises.
NullItem ==
  [ Item("", "", "", "", << >>, << >>, << >>) EXCEPT !.isNull = TRUE ]

\* a || b on text and on urls.
OrText(a, b) == IF a # "" THEN a ELSE b
OrUrl(a, b) == IF a # << >> THEN a ELSE b

\* ------------------------------------------------------- renderGallery card
\* One piece of markup: every kind has the same fields, the unused ones empty.
Markup(kind, src, alt, href, text) ==
  [ kind |-> kind, src |-> src, alt |-> alt, href |-> href, text |-> text ]

\* mediaHtml of one item.
CardMedia(item) ==
  LET title == OrText(item.title, "Untitled")
      mediaType == OrText(item.media_type, "image")
      url == item.url
      thumb == item.thumbnail_url
  IN  IF mediaType = "image"
      THEN Markup("img", url, << title >>, << >>, "")
      ELSE IF mediaType = "video"
      THEN IF thumb # << >>
           THEN Markup("video-thumb", thumb,
                       << title, " (video thumbnail)" >>, << >>, "")
           ELSE Markup("video-placeholder", << >>, << >>,
                       OrUrl(url, Hash), "Watch video")
      ELSE Markup("unsupported", << >>, << >>, << >>, mediaType)

\* The card element built for one item.
Card(item) ==
  [ item |-> item, media |-> CardMedia(item),
    title |-> OrText(item.title, "Untitled"), date |-> item.date ]

\* ------------------------------------------------------ openApodModal media
\* The identifier cut out of a url after `marker`, up to `delim`.
ExtractId(url, marker, delim) == Split(Split(url, marker)[2], delim)[1]

\* Faulty variant of WatchUrl: a short link is not rewritten.
WatchUrlShortRaw(url) ==
  IF Includes(url, EmbedMarker)
  THEN WatchPrefix \o ExtractId(url, EmbedMarker, QueryDelim)
  ELSE url

\* watchUrl after the try block.
WatchUrl(url) ==
  IF Includes(url, EmbedMarker)
  THEN WatchPrefix \o ExtractId(url, EmbedMarker, QueryDelim)
  ELSE IF Includes(url, WatchMarker)
  THEN url
  ELSE IF Includes(url, ShortMarker)
  THEN WatchPrefix \o ExtractId(url, ShortMarker, QueryDelim)
  ELSE url

DerivedThumb(id) == ThumbPrefix \o id \o ThumbSuffix

\* thumbUrl after the try block.
ThumbUrl(url, thumb) ==
  IF thumb # << >>
  THEN thumb
  ELSE IF Includes(url, EmbedMarker)
  THEN DerivedThumb(ExtractId(url, EmbedMarker, QueryDelim))
  ELSE IF Includes(url, WatchMarker)
  THEN DerivedThumb(ExtractId(url, WatchMarker, ParamDelim))
  ELSE IF Includes(url, ShortMarker)
  THEN DerivedThumb(ExtractId(url, ShortMarker, QueryDelim))
  ELSE thumb

\* The nodes of the video branch, in the order they are appended.
VideoNodes(item) ==
  LET watchUrl == WatchUrl(item.url)
      thumbUrl == ThumbUrl(item.url, item.thumbnail_url)
      first == IF thumbUrl # << >>
               THEN Markup("img", thumbUrl,
                           << OrText(item.title, "Video thumbnail") >>,
                           << >>, "")
               ELSE Markup("p", << >>, << >>, << >>,
                           "Video (no thumbnail available)")
  IN  << first,
         Markup("hint", << >>, << >>, << >>,
                "This video will open on YouTube."),
         Markup("a", << >>, << >>,
                OrUrl(watchUrl, OrUrl(item.url, Hash)),
                "Watch video on YouTube") >>

\* What openApodModal puts in the emptied media container, and the src and
\* alt it leaves on the shared imgEl (img is the imgEl before the call).
ModalMedia(item, img) ==
  IF item.media_type = "image" /\ item.hdurl # << >>
  THEN LET el == Markup("imgEl", OrUrl(item.hdurl, item.url),
                        << OrText(item.title, "APOD image") >>, << >>, "")
       IN  [ nodes |-> << el >>, img |-> el ]
  ELSE IF item.media_type = "image" /\ item.url # << >>
  THEN LET el == Markup("imgEl", item.url,
                        << OrText(item.title, "APOD image") >>, << >>, "")
       IN  [ nodes |-> << el >>, img |-> el ]
  ELSE IF item.media_type = "video" /\ item.url # << >>
  THEN [ nodes |-> VideoNodes(item), img |-> img ]
  ELSE IF item.media_type = "video" /\ item.thumbnail_url # << >>
  THEN [ nodes |-> << Markup("img", item.thumbnail_url,
                             << OrText(item.title, "Video thumbnail") >>,
                             << >>, "") >>,
         img |-> img ]
  ELSE [ nodes |-> << Markup("p", << >>, << >>, << >>,
                             "Media not available.") >>,
         img |-> img ]

\* -------------------------------------------------------------- the page
VARIABLES
  trigger,        \* getImageBtn: [disabled, label]
  gallery,        \* the gallery element: [placeholder, cards]
  fullData,       \* the cached feed
  pending,        \* click handlers suspended at an await, oldest first
  apodModal,      \* _apodModal and the elements it holds
  modalsCreated,  \* overlays appended to document.body
  prevActive,     \* _apodModalPrevActive
  activeElement,  \* document.activeElement
  listeners,      \* keydown listeners registered on document, in order
  lastEvent,      \* history: the kind of the last step
  lastAttempt,    \* history: how the last finished fetch attempt went
  galleryFrom,    \* history: what wrote the gallery last, and from which input
  lastOpened      \* history: the item of the last openApodModal call

vars == << trigger, gallery, fullData, pending, apodModal, modalsCreated,
           prevActive, activeElement, listeners, lastEvent, lastAttempt,
           galleryFrom, lastOpened >>

\* Elements a reference or the focus can point at.  A card element that a
\* rewrite of gallery.innerHTML removed from the page is Detached, whichever
\* card it was.
El(kind, idx) == [ el |-> kind, idx |-> idx ]
NullEl == El("null", 0)
Body == El("body", 0)
Trigger == El("trigger", 0)
CloseBtn == El("close", 0)
Detached == El("detached", 0)
CardEl(i) == El("card", i)

LoadingLabel == "Loading..."
DefaultLabel == "Fetch Space Images"
\* The label the page's markup gives the trigger: index.html is not among
\* the sources, so it is a value of its own.
MarkupLabel == "(index.html)"
KeydownListener == "_apodModalKeydown"

Gallery(placeholder, cards) == [ placeholder |-> placeholder, cards |-> cards ]
LoadingPlaceholder == Gallery("loading", << >>)
NoItemsPlaceholder == Gallery("noitems", << >>)
ErrorPlaceholder == Gallery("error", << >>)

\* A parsed response body: an array of elements, or something else.
Body_(isArray, elems) == [ isArray |-> isArray, elems |-> elems ]
NotArray == Body_(FALSE, << >>)

\* The two records of the spec's end-to-end examples.
ItemM1 ==
  Item("M1", "2024-01-01", "", "image", << "http://x/m1.jpg" >>, << >>, << >>)
ItemVideo ==
  Item("", "", "", "video",
       << "https://www.youtube.com", "/", "embed", "/", "abc123" >>,
       << >>, << >>)
FeedItems == { ItemM1, ItemVideo, NullItem }
Bodies ==
  { NotArray } \cup
  { Body_(TRUE, s) : s \in UNION { [1..n -> FeedItems] : n \in 0..MaxFeedLen } }

\* ------------------------------------------------------------ renderGallery
\* Faulty variant of ClearGallery: the gallery is not emptied.
ClearGalleryKeep(g) == g

\* gallery.innerHTML = ''
ClearGallery(g) == Gallery("none", << >>)

\* items.forEach: a card per item, until reading a null item raises.
RECURSIVE ForEachCard(_, _)
ForEachCard(g, rest) ==
  IF rest = << >>
  THEN [ gallery |-> g, raised |-> FALSE ]
  ELSE IF Head(rest).isNull
  THEN [ gallery |-> g, raised |-> TRUE ]
  ELSE ForEachCard(Gallery(g.placeholder, Append(g.cards, Card(Head(rest)))),
                   Tail(rest))

\* renderGallery(items) on gallery g: the gallery it leaves, and whether it
\* raised.
renderGallery(g, items) ==
  IF ~items.isArray \/ Len(items.elems) = 0
  THEN [ gallery |-> NoItemsPlaceholder, raised |-> FALSE ]
  ELSE ForEachCard(ClearGallery(g), items.elems)

\* A rewrite of the gallery removes every card from the page: a reference to
\* one dangles, and the focus, if on one, falls back to the body.
DetachRef(e) == IF e.el = "card" THEN Detached ELSE e
DetachFocus(e) == IF e.el = "card" THEN Body ELSE e

\* ---------------------------------------------------------------- the modal
\* The shared imgEl as createApodModal makes it.
FreshImg == Markup("imgEl", << >>, << >>, << >>, "")

\* _apodModal = null
NoModal ==
  [ set |-> FALSE, display |-> "", title |-> "", date |-> "", expl |-> "",
    media |-> << >>, img |-> FreshImg ]

\* The object createApodModal stores: imgEl is the media container's child.
CreatedModal ==
  [ set |-> TRUE, display |-> "", title |-> "", date |-> "", expl |-> "",
    media |-> << FreshImg >>, img |-> FreshImg ]

\* The modal side of the page, passed through open and close.
CurrentUi ==
  [ modal |-> apodModal, created |-> modalsCreated, prev |-> prevActive,
    active |-> activeElement, listeners |-> listeners ]

\* if (!_apodModal)
NeedsCreate(m) == ~m.set

\* Faulty variant of ClearMedia: the children stay.
ClearMediaKeep(nodes) == nodes

\* while (mediaWrap.firstChild) mediaWrap.removeChild(mediaWrap.firstChild)
ClearMedia(nodes) == << >>

\* document.addEventListener('keydown', l): a listener already registered is
\* not registered twice.
AddListener(ls, l) ==
  IF \E i \in 1..Len(ls) : ls[i] = l THEN ls ELSE Append(ls, l)

\* Faulty variant of RemoveListener: the listener stays registered.
RemoveListenerNone(ls, l) == ls

\* document.removeEventListener('keydown', l)
RemoveListener(ls, l) == SelectSeq(ls, LAMBDA x : x # l)

openApodModal(ui, item) ==
  LET create == NeedsCreate(ui.modal)
      m == IF create THEN CreatedModal ELSE ui.modal
      mm == ModalMedia(item, m.img)
  IN  [ modal |-> [ set |-> TRUE, display |-> "flex",
                    title |-> OrText(item.title, "Untitled"),
                    date |-> item.date,
                    expl |-> item.explanation,
                    media |-> ClearMedia(m.media) \o mm.nodes,
                    img |-> mm.img ],
        created |-> IF create THEN ui.created + 1 ELSE ui.created,
        prev |-> ui.active,
        active |-> CloseBtn,
        listeners |-> AddListener(ui.listeners, KeydownListener) ]

\* Whether el.focus() moves the focus to el: the element is on the page,
\* shown and enabled.  The body and a detached card take no focus.
Focusable(e, display) ==
  \/ e.el = "card"
  \/ e.el = "trigger" /\ ~trigger.disabled
  \/ e.el = "close" /\ display = "flex"

\* Faulty variant of FocusAfterClose: the remembered element is not focused.
FocusAfterCloseStay(ui, blurHidden) ==
  IF ui.active = CloseBtn /\ blurHidden THEN Body ELSE ui.active

\* The focus after closeApodModal.  blurHidden: whether the browser takes the
\* focus off the close control once the modal is hidden (browsers differ).
FocusAfterClose(ui, blurHidden) ==
  IF ui.prev # NullEl /\ Focusable(ui.prev, "none")
  THEN ui.prev
  ELSE IF ui.active = CloseBtn /\ blurHidden THEN Body ELSE ui.active

closeApodModal(ui, blurHidden) ==
  IF ~ui.modal.set
  THEN ui
  ELSE [ ui EXCEPT !.modal.display = "none",
                   !.listeners = RemoveListener(ui.listeners, KeydownListener),
                   !.active = FocusAfterClose(ui, blurHidden) ]

\* _apodModalKeydown, for every keydown that reaches document.
DocumentKeydown(ui, key, blurHidden) ==
  IF (\E i \in 1..Len(ui.listeners) : ui.listeners[i] = KeydownListener)
     /\ key = "Escape"
  THEN closeApodModal(ui, blurHidden)
  ELSE ui

SetUi(ui) ==
  /\ apodModal' = ui.modal
  /\ modalsCreated' = ui.created
  /\ prevActive' = ui.prev
  /\ activeElement' = ui.active
  /\ listeners' = ui.listeners

ModalOpen == apodModal.set /\ apodModal.display = "flex"

\* ------------------------------------------------------ the fetch trigger
\* Faulty variant of TriggerLoading: the trigger is not disabled.
TriggerLoadingEnabled == [ disabled |-> FALSE, label |-> LoadingLabel ]

\* getImageBtn.disabled = true; getImageBtn.textContent = 'Loading...'
TriggerLoading == [ disabled |-> TRUE, label |-> LoadingLabel ]

\* Faulty variant of TriggerReset: the trigger is left as it is.
TriggerResetSkipped(t) == t

\* finally: getImageBtn.disabled = false; textContent = 'Fetch Space Images'
TriggerReset(t) == [ disabled |-> FALSE, label |-> DefaultLabel ]

\* Faulty variant of ResponseThrows: the status is not looked at.
ResponseThrowsNever(ok) == FALSE

\* if (!res.ok) throw
ResponseThrows(ok) == ~ok

RemoveAt(seq, i) == SubSeq(seq, 1, i - 1) \o SubSeq(seq, i + 1, Len(seq))

\* A click on the trigger: the handler up to its first await.  A disabled
\* button receives no click.
ClickFetch ==
  /\ ~trigger.disabled
  /\ Len(pending) < MaxPending
  /\ trigger' = TriggerLoading
  /\ gallery' = LoadingPlaceholder
  /\ pending' = Append(pending, [ stage |-> "fetch", resOk |-> FALSE ])
  /\ prevActive' = DetachRef(prevActive)
  /\ activeElement' = DetachFocus(activeElement)
  /\ lastEvent' = "fetchClick"
  /\ galleryFrom' = [ by |-> "click", input |-> NotArray ]
  /\ UNCHANGED << fullData, apodModal, modalsCreated, listeners, lastAttempt,
                  lastOpened >>

\* The catch block of the handler, then its finally block: invocation i ends.
Failed(i, cause) ==
  /\ gallery' = ErrorPlaceholder
  /\ trigger' = TriggerReset(trigger)
  /\ pending' = RemoveAt(pending, i)
  /\ prevActive' = DetachRef(prevActive)
  /\ activeElement' = DetachFocus(activeElement)
  /\ lastEvent' = "fetchFailed"
  /\ lastAttempt' = cause
  /\ galleryFrom' = [ by |-> "catch", input |-> NotArray ]
  /\ UNCHANGED << apodModal, modalsCreated, listeners, lastOpened >>

\* fetch() rejects: fetchApodData logs and rethrows.
FetchRejects(i) ==
  /\ i \in 1..Len(pending)
  /\ pending[i].stage = "fetch"
  /\ Failed(i, "network")
  /\ UNCHANGED fullData

\* fetch() resolves with a response whose ok flag is `ok`.
FetchResponds(i, ok) ==
  /\ i \in 1..Len(pending)
  /\ pending[i].stage = "fetch"
  /\ IF ResponseThrows(ok)
     THEN /\ Failed(i, "status")
          /\ UNCHANGED fullData
     ELSE /\ pending' = [ pending EXCEPT ![i] = [ stage |-> "json",
                                                  resOk |-> ok ] ]
          /\ lastEvent' = "response"
          /\ UNCHANGED << trigger, gallery, fullData, apodModal, modalsCreated,
                          prevActive, activeElement, listeners, lastAttempt,
                          galleryFrom, lastOpened >>

\* res.json() rejects: the body does not parse.
JsonRejects(i) ==
  /\ i \in 1..Len(pending)
  /\ pending[i].stage = "json"
  /\ Failed(i, IF pending[i].resOk THEN "parse" ELSE "status")
  /\ UNCHANGED fullData

\* res.json() resolves with `data`: the rest of fetchApodData and of the
\* handler, through renderGallery and the finally block.
JsonResolves(i, data) ==
  /\ i \in 1..Len(pending)
  /\ pending[i].stage = "json"
  /\ LET r == renderGallery(gallery, data)
     IN  /\ fullData' = data
         /\ gallery' = IF r.raised THEN ErrorPlaceholder ELSE r.gallery
         /\ lastAttempt' = IF ~pending[i].resOk THEN "status"
                           ELSE IF r.raised THEN "raise" ELSE "rendered"
         /\ galleryFrom' = IF r.raised
                           THEN [ by |-> "catch", input |-> NotArray ]
                           ELSE [ by |-> "render", input |-> data ]
  /\ trigger' = TriggerReset(trigger)
  /\ pending' = RemoveAt(pending, i)
  /\ prevActive' = DetachRef(prevActive)
  /\ activeElement' = DetachFocus(activeElement)
  /\ lastEvent' = "fetchDone"
  /\ UNCHANGED << apodModal, modalsCreated, listeners, lastOpened >>

\* ------------------------------------------------------- the user's events
Keys == { "Enter", " ", "Escape", "a" }

\* A pointer click on card i: the card (tabIndex 0) takes the focus, then
\* its click listener runs.
CardClick(i) ==
  /\ i \in 1..Len(gallery.cards)
  /\ SetUi(openApodModal([ CurrentUi EXCEPT !.active = CardEl(i) ],
                         gallery.cards[i].item))
  /\ lastOpened' = [ any |-> TRUE, item |-> gallery.cards[i].item ]
  /\ lastEvent' = "open"
  /\ UNCHANGED << trigger, gallery, fullData, pending, lastAttempt,
                  galleryFrom >>

\* A key pressed: the focused card's keydown listener, if the focus is on a
\* card, then the listeners of document, which the event bubbles to.
Keydown(key, blurHidden) ==
  LET onCard == activeElement.el = "card"
      opens == onCard /\ key \in { "Enter", " " }
      item == gallery.cards[activeElement.idx].item
      ui1 == IF opens THEN openApodModal(CurrentUi, item) ELSE CurrentUi
      ui2 == DocumentKeydown(ui1, key, blurHidden)
      closes == key = "Escape" /\ Len(ui1.listeners) # Len(ui2.listeners)
  IN  /\ SetUi(ui2)
      /\ lastOpened' = IF opens THEN [ any |-> TRUE, item |-> item ]
                       ELSE lastOpened
      /\ lastEvent' = IF opens THEN "open"
                      ELSE IF ~closes THEN "key"
                      ELSE IF ModalOpen THEN "escape" ELSE "escapeClosed"
      /\ UNCHANGED << trigger, gallery, fullData, pending, lastAttempt,
                      galleryFrom >>

\* A click on the modal's close control.
CloseClick(blurHidden) ==
  /\ ModalOpen
  /\ SetUi(closeApodModal(CurrentUi, blurHidden))
  /\ lastEvent' = "closeClick"
  /\ UNCHANGED << trigger, gallery, fullData, pending, lastAttempt,
                  galleryFrom, lastOpened >>

\* A pointer click inside the shown modal, on the overlay itself or on the
\* box it holds: the overlay's click listener.
OverlayClick(target, blurHidden) ==
  /\ ModalOpen
  /\ SetUi(IF target = "overlay"
           THEN closeApodModal(CurrentUi, blurHidden)
           ELSE CurrentUi)
  /\ lastEvent' = IF target = "overlay" THEN "overlayClick" ELSE "boxClick"
  /\ UNCHANGED << trigger, gallery, fullData, pending, lastAttempt,
                  galleryFrom, lastOpened >>

\* The user moves the focus (Tab, pointer) to an element that takes it, or
\* off every element.
FocusMove(e) ==
  /\ e = Body \/ Focusable(e, apodModal.display)
  /\ e.el = "card" => e.idx \in 1..Len(gallery.cards)
  /\ activeElement' = e
  /\ lastEvent' = "focus"
  /\ UNCHANGED << trigger, gallery, fullData, pending, apodModal,
                  modalsCreated, prevActive, listeners, lastAttempt,
                  galleryFrom, lastOpened >>

FocusTargets ==
  { Body, Trigger, CloseBtn } \cup { CardEl(i) : i \in 1..MaxFeedLen }

\* ------------------------------------------------------------ specification
Init ==
  /\ trigger = [ disabled |-> FALSE, label |-> MarkupLabel ]
  /\ gallery = Gallery("idle", << >>)
  /\ fullData = NotArray
  /\ pending = << >>
  /\ apodModal = NoModal
  /\ modalsCreated = 0
  /\ prevActive = NullEl
  /\ activeElement = Body
  /\ listeners = << >>
  /\ lastEvent = "load"
  /\ lastAttempt = "none"
  /\ galleryFrom = [ by |-> "page", input |-> NotArray ]
  /\ lastOpened = [ any |-> FALSE, item |-> NullItem ]

Next ==
  \/ ClickFetch
  \/ \E i \in 1..MaxPending : FetchRejects(i)
  \/ \E i \in 1..MaxPending, ok \in BOOLEAN : FetchResponds(i, ok)
  \/ \E i \in 1..MaxPending : JsonRejects(i)
  \/ \E i \in 1..MaxPending, data \in Bodies : JsonResolves(i, data)
  \/ \E i \in 1..MaxFeedLen : CardClick(i)
  \/ \E key \in Keys, blurHidden \in BOOLEAN : Keydown(key, blurHidden)
  \/ \E blurHidden \in BOOLEAN : CloseClick(blurHidden)
  \/ \E target \in { "overlay", "box" }, blurHidden \in BOOLEAN :
       OverlayClick(target, blurHidden)
  \/ \E e \in FocusTargets : FocusMove(e)

Spec == Init /\ [][Next]_vars

\* The network answers in the end: a pending fetch() or res.json() settles.
Settle ==
  \E i \in 1..MaxPending :
     \/ FetchRejects(i)
     \/ \E ok \in BOOLEAN : FetchResponds(i, ok)
     \/ JsonRejects(i)
     \/ \E data \in Bodies : JsonResolves(i, data)

FairSpec == Spec /\ WF_vars(Settle)

\* ------------------------------------------------- resolver specification
\* One record of any shape goes from the feed to its card and to the modal.
UrlPieces ==
  { EmbedMarker, WatchMarker, ShortMarker, QueryDelim, ParamDelim,
    << "embed", "/" >>, << "a" >>, << "b" >> }

RECURSIVE UrlsOf(_)
UrlsOf(n) ==
  IF n = 0
  THEN { << >> }
  ELSE LET shorter == UrlsOf(n - 1)
       IN  shorter \cup { u \o q : u \in shorter, q \in UrlPieces }

Urls == UrlsOf(MaxUrlPieces)

ResolverItems ==
  { Item(t, "", "", mt, u, hd, th) :
      t \in { "", "M1" }, mt \in { "", "image", "video", "audio" },
      u \in Urls, hd \in { << >>, << "hd.jpg" >> },
      th \in { << >>, << "thumb.jpg" >> } }

\* The feed returns a one-record array [item]: renderGallery on the page as
\* loaded.
FeedReturns ==
  /\ galleryFrom.by = "page"
  /\ \E item \in ResolverItems :
        LET data == Body_(TRUE, << item >>)
        IN  /\ fullData' = data
            /\ gallery' = renderGallery(gallery, data).gallery
            /\ galleryFrom' = [ by |-> "render", input |-> data ]
  /\ lastEvent' = "fetchDone"
  /\ lastAttempt' = "rendered"
  /\ UNCHANGED << trigger, pending, apodModal, modalsCreated, prevActive,
                  activeElement, listeners, lastOpened >>

NextResolver ==
  \/ FeedReturns
  \/ CardClick(1)

SpecResolver == Init /\ [][NextResolver]_vars

\* ==================================================================
\* Properties
\* ==================================================================
CloseEvents == { "closeClick", "overlayClick", "escape" }
FetchFailures == { "network", "status", "parse" }

\* C1 (as amended).  Right after any of the three close triggers (the close
\* control, a click on the overlay itself, Escape) the modal is hidden and
\* the Escape listener is unregistered, whatever opens, re-opens and gallery
\* rewrites came before; and the focus is on the element the last open
\* remembered whenever that element is still on the page.
C1_CloseConverges ==
  lastEvent \in CloseEvents =>
    /\ apodModal.display = "none"
    /\ listeners = << >>
    /\ prevActive.el = "card" => activeElement = prevActive

\* C1 witness: Escape closed a modal opened from the second card, and the
\* focus is back on that card.
C1_Witness ==
  /\ lastEvent = "escape"
  /\ prevActive = CardEl(2)
  /\ activeElement = CardEl(2)
  /\ apodModal.display = "none"

\* C1 as stated: after a close trigger the focus is always on the element
\* that was focused when the modal was opened.
C1_AsStated ==
  lastEvent \in CloseEvents =>
    /\ apodModal.display = "none"
    /\ listeners = << >>
    /\ activeElement = prevActive

\* C2.  No state has no fetch pending and the trigger disabled or showing
\* the loading label, and after every activation of the trigger it becomes
\* enabled with its default label again, however the attempt ends.
C2_TriggerRestored ==
  /\ [](pending = << >> =>
          ~trigger.disabled /\ trigger.label # LoadingLabel)
  /\ (lastEvent = "fetchClick") ~>
       (~trigger.disabled /\ trigger.label = DefaultLabel)

\* C2 witness: an attempt ended with renderGallery raising, and the trigger
\* is enabled with its default label.
C2_Witness ==
  /\ lastAttempt = "raise"
  /\ pending = << >>
  /\ trigger = [ disabled |-> FALSE, label |-> DefaultLabel ]

\* C3.  At most one invocation of the click handler is in progress, and
\* while one is, the trigger is disabled with the loading label and the
\* gallery shows the loading placeholder alone.
C3_OneFetch ==
  /\ Len(pending) <= 1
  /\ pending # << >> =>
       /\ trigger = [ disabled |-> TRUE, label |-> LoadingLabel ]
       /\ gallery = LoadingPlaceholder

\* C3 witness: a second invocation waits for its body after a first one
\* rendered.
C3_Witness ==
  /\ Len(pending) = 1
  /\ pending[1].stage = "json"
  /\ lastAttempt = "rendered"

\* C4.  Once a fetch attempt has failed (fetch rejected, response status not
\* ok, body not parseable) the gallery holds the error placeholder and no
\* card.
C4_FailureShowsError ==
  (pending = << >> /\ lastAttempt \in FetchFailures) =>
     gallery = ErrorPlaceholder

\* C4 witness: an attempt failed to parse after an earlier one had rendered
\* cards.
C4_Witness ==
  /\ pending = << >>
  /\ lastAttempt = "parse"
  /\ fullData.isArray
  /\ Len(fullData.elems) = 2
  /\ ~fullData.elems[1].isNull /\ ~fullData.elems[2].isNull
  /\ gallery = ErrorPlaceholder

\* C5.  At most one modal is ever created, and after any opens and closes
\* the modal's title, date, explanation and media container hold what the
\* last opened record alone gives: nothing of an earlier record is left.
C5_ModalOfLastRecord ==
  /\ modalsCreated <= 1
  /\ lastOpened.any =>
       /\ modalsCreated = 1
       /\ apodModal.title = OrText(lastOpened.item.title, "Untitled")
       /\ apodModal.date = lastOpened.item.date
       /\ apodModal.expl = lastOpened.item.explanation
       /\ apodModal.media = ModalMedia(lastOpened.item, FreshImg).nodes

\* C5 witness: the video record is shown after the image record was; the
\* shared image element still carries the image's url but is not shown.
C5_Witness ==
  /\ lastOpened.any
  /\ lastOpened.item = ItemVideo
  /\ apodModal.img.src = ItemM1.url
  /\ Len(apodModal.media) = 3
  /\ apodModal.media[1].kind = "img"

\* C6.  The gallery a render leaves depends on that render's input alone:
\* n records give exactly n cards, the i-th from the i-th record, and no
\* placeholder; an empty array or a value that is no array gives the
\* "no items" placeholder and no card, and renderGallery does not raise.
C6_RenderOfLastInput ==
  /\ galleryFrom.by = "render" =>
       LET items == galleryFrom.input
       IN  IF items.isArray /\ Len(items.elems) > 0
           THEN /\ gallery.placeholder = "none"
                /\ Len(gallery.cards) = Len(items.elems)
                /\ \A i \in 1..Len(items.elems) :
                      /\ gallery.cards[i].item = items.elems[i]
                      /\ gallery.cards[i] = Card(items.elems[i])
           ELSE gallery = NoItemsPlaceholder
  /\ (lastEvent = "fetchDone"
        /\ (~fullData.isArray \/ Len(fullData.elems) = 0)) =>
       galleryFrom.by = "render"

\* C6 witness: the gallery holds the video record's card alone while the
\* modal shows the image record, whose card an earlier render had made.
C6_Witness ==
  /\ galleryFrom.by = "render"
  /\ Len(gallery.cards) = 1
  /\ gallery.cards[1].item = ItemVideo
  /\ lastOpened.any
  /\ lastOpened.item = ItemM1

\* C10.  The Escape listener is registered on the page exactly while the
\* modal is open, never more than once, and Escape never runs the close
\* action while the modal is closed.
C10_ListenerIffOpen ==
  /\ Len(listeners) <= 1
  /\ (listeners = << KeydownListener >>) <=> ModalOpen
  /\ lastEvent # "escapeClosed"

\* C10 witness: Escape closed the modal and the listener is gone.
C10_Witness ==
  /\ lastEvent = "escape"
  /\ listeners = << >>
  /\ apodModal.set
  /\ ~ModalOpen

\* ------------------------------------------------ properties of one record
\* What the properties below read off the page (not part of the program).
ShownItem == lastOpened.item
FirstCard == gallery.cards[1]

\* The url shape, in the order the spec's resolver checks the markers.
Shape(url) ==
  IF Includes(url, EmbedMarker) THEN "embed"
  ELSE IF Includes(url, WatchMarker) THEN "watch"
  ELSE IF Includes(url, ShortMarker) THEN "short"
  ELSE "none"

MarkerOf(shape) ==
  IF shape = "embed" THEN EmbedMarker
  ELSE IF shape = "watch" THEN WatchMarker ELSE ShortMarker

DelimOf(shape) == IF shape = "watch" THEN ParamDelim ELSE QueryDelim

\* The identifier of a url of a recognizable shape, by position: what follows
\* the first marker, up to the next delimiter, the next marker or the end.
IdOf(url) ==
  LET marker == MarkerOf(Shape(url))
      delim == DelimOf(Shape(url))
      start == Min(Occurrences(url, marker)) + Len(marker)
      stops == { j \in start..Len(url) :
                   j \in Occurrences(url, marker) \cup Occurrences(url, delim) }
      last == IF stops = {} THEN Len(url) ELSE Min(stops) - 1
  IN  SubSeq(url, start, last)

\* The variant a card's markup shows.
CardVariant(media) ==
  IF media.kind = "img" THEN "image"
  ELSE IF media.kind = "video-thumb" THEN "video-with-thumbnail"
  ELSE IF media.kind = "video-placeholder" THEN "video-without-thumbnail"
  ELSE "unsupported"

\* The variant the modal's media container shows.
ModalVariant(nodes) ==
  IF nodes[1].kind = "imgEl" THEN "image"
  ELSE IF nodes[1].kind = "img" THEN "video-with-thumbnail"
  ELSE IF Len(nodes) = 3 THEN "video-without-thumbnail"
  ELSE "unavailable"

\* "Media not available." stands for an unsupported record, and for a video
\* record with neither url nor thumbnail.
SameVariant(card, modal) ==
  \/ card = modal
  \/ modal = "unavailable" /\ card = "unsupported"
  \/ /\ modal = "unavailable"
     /\ card = "video-without-thumbnail"
     /\ ShownItem.url = << >>

\* C7 as stated: the modal shows a record in the variant its card shows it
\* in.
C7_SameVariant ==
  lastOpened.any =>
    SameVariant(CardVariant(FirstCard.media), ModalVariant(apodModal.media))

\* C8 (as amended).  For a video record whose url has the embed, watch or
\* short shape, the modal's watch link is the canonical watch url of the
\* identifier for an embed or a short link and the record's own url for a
\* watch link, and the thumbnail shown is the record's thumbnail_url when it
\* has one and the canonical thumbnail of the identifier otherwise.
C8_VideoUrls ==
  (lastOpened.any /\ ShownItem.media_type = "video"
     /\ Shape(ShownItem.url) # "none") =>
    /\ Len(apodModal.media) = 3
    /\ apodModal.media[3].kind = "a"
    /\ apodModal.media[3].href =
         IF Shape(ShownItem.url) = "watch"
         THEN ShownItem.url
         ELSE WatchPrefix \o IdOf(ShownItem.url)
    /\ apodModal.media[1].kind = "img"
    /\ apodModal.media[1].src =
         IF ShownItem.thumbnail_url # << >>
         THEN ShownItem.thumbnail_url
         ELSE ThumbPrefix \o IdOf(ShownItem.url) \o ThumbSuffix

\* C8 witness: a short link with a query and no thumbnail of its own is
\* shown with the canonical watch url and thumbnail of its identifier.
C8_Witness ==
  /\ lastOpened.any
  /\ ShownItem.media_type = "video"
  /\ ShownItem.url = ShortMarker \o << "a" >> \o QueryDelim
  /\ ShownItem.thumbnail_url = << >>
  /\ apodModal.media[3].href = WatchPrefix \o << "a" >>
  /\ apodModal.media[1].src = ThumbPrefix \o << "a" >> \o ThumbSuffix

\* C8 as stated: the watch url and the thumbnail shown for such a record
\* depend on the identifier alone, so two urls of one shape with one
\* identifier are shown alike.
C8_AsStated ==
  (lastOpened.any /\ ShownItem.media_type = "video"
     /\ Shape(ShownItem.url) # "none") =>
    \A u \in Urls :
       (Shape(u) = Shape(ShownItem.url) /\ IdOf(u) = IdOf(ShownItem.url)) =>
          /\ apodModal.media[3].href = WatchUrl(u)
          /\ apodModal.media[1].src = ThumbUrl(u, ShownItem.thumbnail_url)

\* C9 as stated: an image record is displayed, in its card and in the modal,
\* with hdurl when it has one and with url otherwise.
C9_ImageUrl ==
  /\ (galleryFrom.by = "render"
        /\ FirstCard.item.media_type = "image"
        /\ OrUrl(FirstCard.item.hdurl, FirstCard.item.url) # << >>) =>
       /\ FirstCard.media.kind = "img"
       /\ FirstCard.media.src = OrUrl(FirstCard.item.hdurl, FirstCard.item.url)
  /\ (lastOpened.any
        /\ ShownItem.media_type = "image"
        /\ OrUrl(ShownItem.hdurl, ShownItem.url) # << >>) =>
       /\ apodModal.media[1].kind = "imgEl"
       /\ apodModal.media[1].src = OrUrl(ShownItem.hdurl, ShownItem.url)

=============================================================================
